---- MODULE Spec2Model ----
(***************************************************************************)
(* RenameExtension.py: normalize_ext, safe_rename and rename_extensions    *)
(* over a small directory tree.  File and directory names are sequences    *)
(* of one-character strings; a path is a sequence of names.                *)
(***************************************************************************)
EXTENDS Integers, Sequences, FiniteSets, TLC

VARIABLES
    platform,   \* the host: decides os.path.normcase and the file system's case rule
    fs,         \* directory path -> set of file entries [name, orig];
                \* its domain is the set of directories that exist
    pc,         \* position of the caller in rename_extensions
    path,       \* argument path
    old_raw,    \* argument old_ext as given
    new_raw,    \* argument new_ext as given
    old_ext,    \* local old_ext after normalize_ext
    new_ext,    \* local new_ext after normalize_ext
    stack,      \* os.walk's stack: directories to scan and tuples to yield
    root,       \* loop variable root of the current os.walk tuple
    files,      \* the files of the current tuple still to be iterated
    out,        \* lines printed by the current invocation
    ret,        \* what the invocation handed to its caller
    err,        \* the exception that left rename_extensions, or None
    runs,       \* number of invocations started
    fsAtCall,   \* the file system when the current invocation started
    log,        \* history: the decision taken for every matched file
    prevLog,    \* history: log of the invocation before the current one
    nin,        \* normalize_ext on its own: the input string
    nres,       \* normalize_ext on its own: results of successive applications
    nout        \* normalize_ext on its own: the latest value

vars == <<platform, fs, pc, path, old_raw, new_raw, old_ext, new_ext, stack,
          root, files, out, ret, err, runs, fsAtCall, log, prevLog, nin, nres, nout>>

walkVars == <<platform, fs, pc, path, old_raw, new_raw, old_ext, new_ext, stack,
              root, files, out, ret, err, runs, fsAtCall, log, prevLog>>

normVars == <<nin, nres, nout>>

--------------------------------------------------------------------------
(* Bounds *)

MaxFiles == 2       \* files in the tree at the start
MaxRuns == 2        \* successive invocations with the same arguments
MaxLen == 3         \* length of the strings given to normalize_ext on its own
MaxApply == 2       \* successive applications of normalize_ext

\* Python's None, the value of a call that executes no return statement
None == [type |-> "NoneType", value |-> <<>>]

--------------------------------------------------------------------------
(* Strings *)

\* str.lower on one character
LowerChar(c) ==
    CASE c = "O" -> "o"
      [] c = "N" -> "n"
      [] c = "X" -> "x"
      [] c = "B" -> "b"
      [] OTHER -> c

\* str.lower
lower(s) == [i \in 1..Len(s) |-> LowerChar(s[i])]

IsSpace(c) == c = " "

\* str.strip: drop leading and trailing whitespace
strip(s) ==
    LET keep == {i \in 1..Len(s) : ~IsSpace(s[i])}
    IN  IF keep = {} THEN <<>>
        ELSE LET lo == CHOOSE i \in keep : \A j \in keep : i <= j
                 hi == CHOOSE i \in keep : \A j \in keep : j <= i
             IN  SubSeq(s, lo, hi)

\* str.startswith
startswith(s, p) == Len(p) <= Len(s) /\ SubSeq(s, 1, Len(p)) = p

\* str.endswith
endswith(s, p) == Len(p) <= Len(s) /\ SubSeq(s, Len(s) - Len(p) + 1, Len(s)) = p

\* the mutant of normalize_ext that always prepends the dot
normalize_ext_always_dot(ext) == <<".">> \o lower(strip(ext))

\* mutant: the input is not stripped
normalize_ext_no_strip(ext) ==
    LET e == lower(ext)
    IN  IF startswith(e, <<".">>) THEN e ELSE <<".">> \o e

\* mutant: the input is not lowercased
normalize_ext_no_lower(ext) ==
    LET e == strip(ext)
    IN  IF startswith(e, <<".">>) THEN e ELSE <<".">> \o e

\* normalize_ext
normalize_ext(ext) ==
    LET e == lower(strip(ext))
    IN  IF startswith(e, <<".">>) THEN e ELSE <<".">> \o e

\* fname[:-n] for n >= 1
DropLast(s, n) == SubSeq(s, 1, Len(s) - n)

--------------------------------------------------------------------------
(* Paths and the host *)

Platforms == {"linux", "macos", "windows"}

\* macOS and Windows volumes treat names that differ only in case as one name
CaseInsensitiveFs == platform \in {"macos", "windows"}

\* os.path.normcase: lowercases on Windows, returns the path unchanged elsewhere
normcase(p) ==
    IF platform = "windows" THEN [i \in 1..Len(p) |-> lower(p[i])] ELSE p

\* os.path.join(root, name)
join(d, n) == Append(d, n)

\* os.path.dirname
dirname(p) == SubSeq(p, 1, Len(p) - 1)

\* os.path.basename
basename(p) == p[Len(p)]

\* the name as the file system compares it
Fold(n) == IF CaseInsensitiveFs THEN lower(n) ELSE n

FoldPath(p) == [i \in 1..Len(p) |-> Fold(p[i])]

--------------------------------------------------------------------------
(* The directory tree: the directories the tree starts with, and the file  *)
(* system calls on a tree fsys.                                            *)

XO == <<"x", ".", "o">>
XOup == <<"x", ".", "O">>
XupO == <<"X", ".", "o">>
XN == <<"x", ".", "n">>
DotO == <<".", "o">>
DO == <<"d", ".", "o">>

\* names the files of the tree start with
NamePool == {XO, XOup, XupO, XN, DotO}

Top == << <<"r">> >>
DirA == join(Top, XN)
DirB == join(DirA, DO)
DirSet == {Top, DirA, DirB}

\* str(uuid.uuid4()): a name no entry of the directory has
uuid4 == <<"u">>

\* the subdirectories of a directory
Children(fsys, d) == {c \in DOMAIN fsys : Len(c) = Len(d) + 1 /\ dirname(c) = d}

\* os.path.isdir
isdir(fsys, p) == \E d \in DOMAIN fsys : FoldPath(d) = FoldPath(p)

\* the directory a path names
ResolveDir(fsys, p) == CHOOSE d \in DOMAIN fsys : FoldPath(d) = FoldPath(p)

\* the file entries a path names (none or one)
FileAt(fsys, p) ==
    IF Len(p) < 2 \/ ~isdir(fsys, dirname(p)) THEN {}
    ELSE {e \in fsys[ResolveDir(fsys, dirname(p))] : Fold(e.name) = Fold(basename(p))}

\* mutant: only directories are seen
exists_dirs_only(fsys, p) == isdir(fsys, p)

\* os.path.exists
exists(fsys, p) == isdir(fsys, p) \/ FileAt(fsys, p) # {}

\* a path with its leading part src replaced by dst
Rebase(p, src, dst) ==
    IF Len(src) <= Len(p) /\ SubSeq(p, 1, Len(src)) = src
    THEN dst \o SubSeq(p, Len(src) + 1, Len(p))
    ELSE p

\* an exception: its class and the paths it names
OSError(type, src, dst) == [type |-> type, filename |-> src, filename2 |-> dst]

\* no exception
NoError == OSError("None", <<>>, <<>>)

\* os.rename(src, dst); fail: the operating system refuses this call
os_rename(fsys, src, dst, fail) ==
    LET se == FileAt(fsys, src)
        de == FileAt(fsys, dst)
    IN  IF fail THEN [fs |-> fsys, err |-> OSError("PermissionError", src, dst)]
        ELSE IF Len(dst) < 2 \/ ~isdir(fsys, dirname(dst))
        THEN [fs |-> fsys, err |-> OSError("FileNotFoundError", src, dst)]
        ELSE IF isdir(fsys, src)
        THEN \* a directory is renamed with all that is below it
             IF exists(fsys, dst) /\ FoldPath(dst) # FoldPath(src)
             THEN [fs |-> fsys, err |-> OSError("FileExistsError", src, dst)]
             ELSE LET from == ResolveDir(fsys, src)
                      to == join(ResolveDir(fsys, dirname(dst)), basename(dst))
                  IN  [fs |-> [d \in {Rebase(c, from, to) : c \in DOMAIN fsys} |->
                                 fsys[CHOOSE c \in DOMAIN fsys : Rebase(c, from, to) = d]],
                       err |-> NoError]
        ELSE IF se = {}
        THEN [fs |-> fsys, err |-> OSError("FileNotFoundError", src, dst)]
        ELSE IF isdir(fsys, dst)
        THEN [fs |-> fsys,
              err |-> OSError(IF platform = "windows" THEN "FileExistsError"
                              ELSE "IsADirectoryError", src, dst)]
        ELSE IF de # {} /\ de # se /\ platform = "windows"
        THEN [fs |-> fsys, err |-> OSError("FileExistsError", src, dst)]
        ELSE LET sd == ResolveDir(fsys, dirname(src))
                 dd == ResolveDir(fsys, dirname(dst))
                 e == CHOOSE x \in se : TRUE
                 removed == [d \in DOMAIN fsys |->
                               IF d = sd THEN (fsys[d] \ se) \ (IF d = dd THEN de ELSE {})
                               ELSE IF d = dd THEN fsys[d] \ de
                               ELSE fsys[d]]
             IN  [fs |-> [removed EXCEPT ![dd] =
                             @ \cup {[name |-> basename(dst), orig |-> e.orig]}],
                  err |-> NoError]

\* what a call of safe_rename leaves: the tree, the error raised, and the
\* branch taken (steps 2: through a temporary name, steps 1: one os.rename)
Taken(r, n) == [fs |-> r.fs, err |-> r.err, steps |-> n]

\* mutant: the comparison folds case on every host
SameNormcase_lower(old_path, new_path) ==
    [i \in 1..Len(old_path) |-> lower(old_path[i])]
        = [i \in 1..Len(new_path) |-> lower(new_path[i])]

\* the test of safe_rename's if
SameNormcase(old_path, new_path) == normcase(old_path) = normcase(new_path)

\* mutant: a failed second step moves the file back to its old name
safe_rename_rollback(fsys, old_path, new_path, fail) ==
    IF SameNormcase(old_path, new_path)
    THEN LET temp == join(dirname(old_path), uuid4)
             r1 == os_rename(fsys, old_path, temp, fail = 1)
             r2 == os_rename(r1.fs, temp, new_path, fail = 2)
         IN  IF r1.err # NoError THEN Taken(r1, 2)
             ELSE IF r2.err # NoError
             THEN [fs |-> os_rename(r2.fs, temp, old_path, FALSE).fs, err |-> r2.err,
                   steps |-> 2]
             ELSE Taken(r2, 2)
    ELSE Taken(os_rename(fsys, old_path, new_path, fail = 1), 1)

\* safe_rename(old_path, new_path); fail: which os.rename call is refused (0: none)
safe_rename(fsys, old_path, new_path, fail) ==
    IF SameNormcase(old_path, new_path)
    THEN LET temp == join(dirname(old_path), uuid4)
             r1 == os_rename(fsys, old_path, temp, fail = 1)
         IN  IF r1.err # NoError THEN Taken(r1, 2)
             ELSE Taken(os_rename(r1.fs, temp, new_path, fail = 2), 2)
    ELSE Taken(os_rename(fsys, old_path, new_path, fail = 1), 1)

\* the os.rename calls safe_rename makes
RenameCalls(old_path, new_path) ==
    IF SameNormcase(old_path, new_path) THEN 2 ELSE 1

--------------------------------------------------------------------------
(* rename_extensions *)

\* nothing was handed back (yet)
NoValue == [type |-> "unset", value |-> <<>>]

\* the orders in which os.scandir may list a set of names
Orders(S) ==
    {s \in [1..Cardinality(S) -> S] : \A i, j \in 1..Cardinality(S) : s[i] = s[j] => i = j}

\* mutant: the if that tests the name is gone
Matches_always(fname, ext) == TRUE

\* fname.lower().endswith(old_ext)
Matches(fname, ext) == endswith(lower(fname), ext)

\* mutant: one character too few is cut off
NewName_off_by_one(fname, oext, next) == DropLast(fname, Len(oext) - 1) \o next

\* base + new_ext
NewName(fname, oext, next) == DropLast(fname, Len(oext)) \o next

\* mutant: the not of the condition is lost
TargetExists_no_not(fsys, old_path, new_path) ==
    exists(fsys, new_path) /\ normcase(old_path) = normcase(new_path)

\* the condition of the if that skips a file
TargetExists(fsys, old_path, new_path) ==
    exists(fsys, new_path) /\ ~(normcase(old_path) = normcase(new_path))

\* mutant: the path is only tested for existence
RootIsDir_exists(p) == exists(fs, p)

\* the test of rename_extensions' first if
RootIsDir(p) == isdir(fs, p)

\* mutant: the loop body catches and drops the exception
Propagates_swallowed(e) == FALSE

\* an exception raised in the loop body leaves rename_extensions: nothing catches it
Propagates(e) == e # NoError

\* the line print writes for a skipped file
WarnLine(old_path) == [path |-> old_path, reason |-> "target exists"]

\* history only: another entry than the one old_path names holds new_path
DistinctOccupant(fsys, old_path, new_path) ==
    \/ isdir(fsys, new_path)
    \/ \E e \in FileAt(fsys, new_path) : e \notin FileAt(fsys, old_path)

\* history only: the file a decision is about, named by its path at the start
OrigOf(fsys, p) ==
    IF FileAt(fsys, p) = {} THEN <<>> ELSE (CHOOSE e \in FileAt(fsys, p) : TRUE).orig

\* mutant: the loop runs over the directory as it is now and meets the new name
RestAfterRename_live(fl, new_name) == Append(Tail(fl), new_name)

\* the for loop runs over the list os.walk made before any rename: the names
\* left to visit after a rename
RestAfterRename(fl, new_name) == Tail(fl)

\* mutant: the loop also runs over the names of the subdirectories
Listed_with_dirs(fsys, d) ==
    {e.name : e \in fsys[d]} \cup {basename(c) : c \in Children(fsys, d)}

\* the names os.walk hands out as files: the entries that are no directories
Listed(fsys, d) == {e.name : e \in fsys[d]}

\* mutant: os.walk top-down, a directory's tuple comes before its subdirectories
WalkPush_topdown(top, do, fo, rest) ==
    <<[kind |-> "tuple", top |-> top, files |-> fo]>>
    \o [i \in 1..Len(do) |-> [kind |-> "dir", top |-> join(top, do[i]), files |-> <<>>]]
    \o rest

\* os.walk(topdown=False): the subdirectories are walked first, in the order
\* listed, and the directory's own tuple is yielded after them
WalkPush(top, do, fo, rest) ==
    [i \in 1..Len(do) |-> [kind |-> "dir", top |-> join(top, do[i]), files |-> <<>>]]
    \o <<[kind |-> "tuple", top |-> top, files |-> fo]>>
    \o rest

\* the call: the isdir check, the two normalizations and the start of os.walk
Call ==
    /\ pc = "idle" \/ (pc = "done" /\ runs < MaxRuns)
    /\ runs' = runs + 1
    /\ fsAtCall' = fs
    /\ out' = <<>>
    /\ log' = <<>>
    /\ prevLog' = log
    /\ ret' = NoValue
    /\ root' = <<>>
    /\ files' = <<>>
    /\ IF ~RootIsDir(path)
       THEN /\ pc' = "raised"
            /\ err' = OSError("NotADirectoryError", path, <<>>)
            /\ UNCHANGED <<old_ext, new_ext, stack>>
       ELSE /\ pc' = "walk"
            /\ err' = NoError
            /\ old_ext' = normalize_ext(old_raw)
            /\ new_ext' = normalize_ext(new_raw)
            /\ stack' = <<[kind |-> "dir", top |-> path, files |-> <<>>]>>
    /\ UNCHANGED <<platform, fs, path, old_raw, new_raw>>
    /\ UNCHANGED normVars

\* os.walk(topdown=False) scans a directory: its tuple goes on the stack below
\* its subdirectories
WalkScan ==
    /\ pc = "walk"
    /\ stack # <<>>
    /\ Head(stack).kind = "dir"
    /\ LET top == Head(stack).top
       IN  IF ~isdir(fs, top)
           THEN stack' = Tail(stack)     \* scandir fails, os.walk ignores the error
           ELSE LET d == ResolveDir(fs, top)
                IN  \E fo \in Orders(Listed(fs, d)) :
                    \E do \in Orders({basename(c) : c \in Children(fs, d)}) :
                        stack' = WalkPush(top, do, fo, Tail(stack))
    /\ UNCHANGED <<platform, fs, pc, path, old_raw, new_raw, old_ext, new_ext,
                   root, files, out, ret, err, runs, fsAtCall, log, prevLog>>
    /\ UNCHANGED normVars

\* os.walk yields a tuple: the for loop over its files starts
WalkYield ==
    /\ pc = "walk"
    /\ stack # <<>>
    /\ Head(stack).kind = "tuple"
    /\ root' = Head(stack).top
    /\ files' = Head(stack).files
    /\ stack' = Tail(stack)
    /\ pc' = IF Head(stack).files = <<>> THEN "walk" ELSE "files"
    /\ UNCHANGED <<platform, fs, path, old_raw, new_raw, old_ext, new_ext,
                   out, ret, err, runs, fsAtCall, log, prevLog>>
    /\ UNCHANGED normVars

\* os.walk is exhausted: rename_extensions falls off its end
WalkEnd ==
    /\ pc = "walk"
    /\ stack = <<>>
    /\ pc' = "done"
    /\ ret' = None
    /\ UNCHANGED <<platform, fs, path, old_raw, new_raw, old_ext, new_ext, stack,
                   root, files, out, err, runs, fsAtCall, log, prevLog>>
    /\ UNCHANGED normVars

AfterFile(rest) == IF rest = <<>> THEN "walk" ELSE "files"

\* one iteration of the inner loop: the name does not end with old_ext
IterNoMatch ==
    /\ pc = "files"
    /\ ~Matches(Head(files), old_ext)
    /\ files' = Tail(files)
    /\ pc' = AfterFile(files')
    /\ UNCHANGED <<platform, fs, path, old_raw, new_raw, old_ext, new_ext, stack,
                   root, out, ret, err, runs, fsAtCall, log, prevLog>>
    /\ UNCHANGED normVars

\* one iteration of the inner loop: the target exists, the file is skipped
IterSkip ==
    /\ pc = "files"
    /\ Matches(Head(files), old_ext)
    /\ LET fname == Head(files)
           old_path == join(root, fname)
           new_path == join(root, NewName(fname, old_ext, new_ext))
       IN  /\ TargetExists(fs, old_path, new_path)
           /\ out' = Append(out, WarnLine(old_path))
           /\ log' = Append(log, [src |-> old_path, dst |-> new_path,
                                  act |-> "skip", calls |-> 0, failed |-> 0,
                                  orig |-> OrigOf(fs, old_path),
                                  occupied |-> DistinctOccupant(fs, old_path, new_path)])
    /\ files' = Tail(files)
    /\ pc' = AfterFile(files')
    /\ UNCHANGED <<platform, fs, path, old_raw, new_raw, old_ext, new_ext, stack,
                   root, ret, err, runs, fsAtCall, prevLog>>
    /\ UNCHANGED normVars

\* one iteration of the inner loop: safe_rename is called
IterRename ==
    /\ pc = "files"
    /\ Matches(Head(files), old_ext)
    /\ LET fname == Head(files)
           old_path == join(root, fname)
           new_path == join(root, NewName(fname, old_ext, new_ext))
       IN  /\ ~TargetExists(fs, old_path, new_path)
           /\ \E fail \in 0..RenameCalls(old_path, new_path) :
                 LET r == safe_rename(fs, old_path, new_path, fail)
                 IN  /\ fs' = r.fs
                     /\ err' = r.err
                     /\ log' = Append(log, [src |-> old_path, dst |-> new_path,
                                            act |-> "rename",
                                            calls |-> r.steps,
                                            failed |-> fail,
                                            orig |-> OrigOf(fs, old_path),
                                            occupied |->
                                               DistinctOccupant(fs, old_path, new_path)])
                     /\ IF Propagates(r.err)
                        THEN pc' = "raised" /\ UNCHANGED files
                        ELSE /\ files' = RestAfterRename(files, basename(new_path))
                             /\ pc' = AfterFile(files')
    /\ UNCHANGED <<platform, path, old_raw, new_raw, old_ext, new_ext, stack,
                   root, out, ret, runs, fsAtCall, prevLog>>
    /\ UNCHANGED normVars

--------------------------------------------------------------------------
(* The start *)

\* the arguments (old_ext, new_ext) tried
ExtPairs ==
    { << <<"o">>, <<".", "N">> >>,
      << <<".", "O", " ">>, <<"o">> >>,
      << <<".", "o">>, <<"b", ".", "o">> >> }

\* the arguments path tried: the tree's top, and a path that is a file or nothing
PathArgs == {Top, join(Top, XO)}

Slots == {join(d, n) : d \in DirSet, n \in NamePool}

FoldOn(pl, p) == IF pl = "linux" THEN p ELSE [i \in 1..Len(p) |-> lower(p[i])]

\* the sets of at most n slots
RECURSIVE UpTo(_)
UpTo(n) ==
    IF n = 0 THEN {{}}
    ELSE LET smaller == UpTo(n - 1)
         IN  smaller \cup {S \cup {p} : S \in smaller, p \in Slots}

\* sets of files a file system of the host can hold
Placements(pl) ==
    {S \in UpTo(MaxFiles) :
        /\ \A p \in S : \A d \in DirSet : FoldOn(pl, p) # FoldOn(pl, d)
        /\ \A p, q \in S : FoldOn(pl, p) = FoldOn(pl, q) => p = q}

InitWalk ==
    /\ platform \in Platforms
    /\ \E S \in Placements(platform) :
          fs = [d \in DirSet |->
                  {[name |-> basename(p), orig |-> p] : p \in {q \in S : dirname(q) = d}}]
    /\ pc = "idle"
    /\ path \in PathArgs
    /\ \E xp \in ExtPairs : old_raw = xp[1] /\ new_raw = xp[2]
    /\ old_ext = <<>>
    /\ new_ext = <<>>
    /\ stack = <<>>
    /\ root = <<>>
    /\ files = <<>>
    /\ out = <<>>
    /\ ret = NoValue
    /\ err = NoError
    /\ runs = 0
    /\ fsAtCall = fs
    /\ log = <<>>
    /\ prevLog = <<>>

Init ==
    /\ InitWalk
    /\ nin = <<>>
    /\ nres = <<>>
    /\ nout = <<>>

Next ==
    \/ Call
    \/ WalkScan
    \/ WalkYield
    \/ WalkEnd
    \/ IterNoMatch
    \/ IterSkip
    \/ IterRename

Spec == Init /\ [][Next]_vars

--------------------------------------------------------------------------
(* normalize_ext on its own *)

NormAlphabet == {" ", ".", "o", "O"}

Strings(n) == UNION {[1..k -> NormAlphabet] : k \in 0..n}

InitNorm ==
    /\ platform = "linux"
    /\ fs = [d \in DirSet |-> {}]
    /\ pc = "idle"
    /\ path = Top
    /\ old_raw = <<>>
    /\ new_raw = <<>>
    /\ old_ext = <<>>
    /\ new_ext = <<>>
    /\ stack = <<>>
    /\ root = <<>>
    /\ files = <<>>
    /\ out = <<>>
    /\ ret = NoValue
    /\ err = NoError
    /\ runs = 0
    /\ fsAtCall = fs
    /\ log = <<>>
    /\ prevLog = <<>>
    /\ nin \in Strings(MaxLen)
    /\ nres = <<>>
    /\ nout = nin

\* one more application of normalize_ext to the latest value
Normalize ==
    /\ Len(nres) < MaxApply
    /\ nout' = normalize_ext(nout)
    /\ nres' = Append(nres, nout')
    /\ UNCHANGED nin
    /\ UNCHANGED walkVars

NextNorm == Normalize

SpecNorm == InitNorm /\ [][NextNorm]_vars

--------------------------------------------------------------------------
(* What the claims speak of *)

\* the file the inner loop is at, and the destination computed for it
CurOld == join(root, Head(files))
CurNew == join(root, SubSeq(Head(files), 1, Len(Head(files)) - Len(old_ext)) \o new_ext)

\* the inner loop is at a file whose name ends with the old extension
AtMatched == pc = "files" /\ endswith(lower(Head(files)), old_ext)

\* another entry than the source holds the destination path
OccupiedByOther(fsys, src, dst) ==
    \/ dst \in {FoldPath(d) : d \in DirSet}
    \/ FoldPath(dst) \in {FoldPath(d) : d \in DirSet}
    \/ \E e \in fsys[dirname(src)] :
          /\ Fold(e.name) = Fold(basename(dst))
          /\ Fold(e.name) # Fold(basename(src))

\* the files that matched when the invocation started, as <<directory, entry>>
MatchedAtCall ==
    {x \in UNION {{<<d, e>> : e \in fsAtCall[d]} : d \in DirSet} :
        endswith(lower(x[2].name), old_ext)}

\* the name a matched entry is to get
Dest(e) == SubSeq(e.name, 1, Len(e.name) - Len(old_ext)) \o new_ext

\* no destination name is held by any entry when the invocation starts
NoDestOccupied ==
    \A x \in MatchedAtCall :
        /\ \A d \in DirSet : FoldPath(d) # FoldPath(join(x[1], Dest(x[2])))
        /\ \A e \in fsAtCall[x[1]] : Fold(e.name) # Fold(Dest(x[2]))

\* no two matched files of one directory are to get the same name
DistinctDests ==
    \A x, y \in MatchedAtCall :
        (x[1] = y[1] /\ x # y) => Fold(Dest(x[2])) # Fold(Dest(y[2]))

\* every file is where the tree had it at the start
InitialFs == \A d \in DirSet : \A e \in fs[d] : e.orig = join(d, e.name)

\* C1: a matched file whose destination is held by another entry is skipped:
\* that step changes no file, prints exactly one line naming the source, and
\* the loop goes on to the next file without an exception
C1_TrueCollisionSkip ==
    [][(AtMatched /\ OccupiedByOther(fs, CurOld, CurNew))
          => /\ fs' = fs
             /\ out' = Append(out, [path |-> CurOld, reason |-> "target exists"])
             /\ files' = Tail(files)
             /\ pc' \in {"files", "walk"}
             /\ err' = NoError]_vars

\* a run that skipped a file for a true collision and renamed a file after it
C1_Witness ==
    /\ pc = "done"
    /\ \E i, j \in 1..Len(log) :
          /\ i < j
          /\ log[i].act = "skip"
          /\ log[i].occupied
          /\ log[j].act = "rename"
          /\ log[j].failed = 0

\* C2 as stated: after a completed run on a tree in which no destination name
\* is occupied, every matched file is in its directory under its base name
\* followed by the new extension
C2_Original ==
    (pc = "done" /\ NoDestOccupied)
        => \A x \in MatchedAtCall :
              [name |-> Dest(x[2]), orig |-> x[2].orig] \in fs[x[1]]

\* C2 amended: the same, for trees in which also no two matched files of one
\* directory have the same destination name
C2_Completeness ==
    (pc = "done" /\ NoDestOccupied /\ DistinctDests)
        => \A x \in MatchedAtCall :
              [name |-> Dest(x[2]), orig |-> x[2].orig] \in fs[x[1]]

\* a completed run that renamed a file with an empty base in the deepest
\* directory and a file with an upper-case base in the top directory
C2_Witness ==
    /\ pc = "done"
    /\ runs = 1
    /\ NoDestOccupied
    /\ DistinctDests
    /\ old_ext # new_ext
    /\ [name |-> new_ext, orig |-> join(DirB, DotO)] \in fs[DirB]
    /\ \E e \in fs[Top] : e.orig = join(Top, XupO) /\ e.name = <<"X">> \o new_ext

\* C3: a file whose name does not end with the normalized old extension stays
\* under its name, with its content, at every moment of an invocation
C3_NonMatchingUntouched ==
    pc # "idle"
        => \A d \in DirSet : \A e \in fsAtCall[d] :
              ~endswith(lower(e.name), normalize_ext(old_raw)) => e \in fs[d]

\* a completed run that renamed a file in a directory holding a non-matching file
C3_Witness ==
    /\ pc = "done"
    /\ \E d \in DirSet : \E e \in fsAtCall[d] : \E i \in 1..Len(log) :
          /\ ~endswith(lower(e.name), normalize_ext(old_raw))
          /\ log[i].act = "rename"
          /\ log[i].failed = 0
          /\ dirname(log[i].src) = d
          /\ e \in fs[d]

\* the latest entry of the history
Last == log[Len(log)]

\* C4 as stated: on a case-insensitive file system, a matched file whose
\* destination is its own name in another letter case is not reported as
\* skipped; safe_rename is called, and unless the operating system refuses a
\* rename the file ends under the destination's spelling
C4_CaseOnlyRename ==
    [][(/\ AtMatched
        /\ CaseInsensitiveFs
        /\ basename(CurNew) # Head(files)
        /\ lower(basename(CurNew)) = lower(Head(files)))
          => /\ out' = out
             /\ Len(log') = Len(log) + 1
             /\ log'[Len(log')].act = "rename"
             /\ log'[Len(log')].failed = 0
                   => /\ pc' # "raised"
                      /\ \E e \in fs'[root] : e.name = basename(CurNew)]_vars

\* C5: called with a path that is no directory, rename_extensions raises
\* NotADirectoryError before it normalizes, walks or renames: no file changed
C5_InvalidRoot ==
    (runs > 0 /\ path \notin DirSet)
        => /\ pc = "raised"
           /\ err.type = "NotADirectoryError"
           /\ fs = fsAtCall
           /\ InitialFs
           /\ old_ext = <<>>
           /\ new_ext = <<>>
           /\ stack = <<>>
           /\ log = <<>>
           /\ out = <<>>

\* the call was made with the path of a regular file
C5_Witness ==
    /\ pc = "raised"
    /\ runs = 1
    /\ \E e \in fs[Top] : join(Top, e.name) = path

\* C6: a rename that fails ends the invocation with the exception; nothing
\* happens after it, and the failing step changes no file but the one it was
\* renaming, so the files renamed before keep their new names and the files
\* not reached keep their old ones
C6_FailureAborts ==
    [][/\ pc # "raised"
       /\ (pc = "files" /\ Len(log') = Len(log) + 1 /\ log'[Len(log')].failed # 0)
             => /\ pc' = "raised"
                /\ err' # NoError
                /\ err'.type # "NotADirectoryError"
                /\ ret' = NoValue
                /\ \A i \in 1..Len(log) :
                      (log[i].act = "rename" /\ log[i].failed = 0)
                         => \E e \in fs'[dirname(log[i].dst)] :
                               e.name = basename(log[i].dst)
                /\ \A d \in DirSet : \A e \in fs[d] :
                      (d # root \/ e.name # Head(files)) => e \in fs'[d]]_vars

\* a rename failed after another file had been renamed, with directories
\* still to be visited
C6_Witness ==
    /\ pc = "raised"
    /\ Len(log) >= 2
    /\ log[1].act = "rename"
    /\ log[1].failed = 0
    /\ Last.failed # 0
    /\ stack # <<>>

\* C7: when the second step of the two-step rename fails, the file is left
\* under the temporary name, under neither its old nor its new name, and the
\* exception names the temporary path as its source; the exception of a failed
\* direct rename or first step names the file's own path and leaves no
\* temporary name behind
C7_OrphanDistinguishable ==
    (pc = "raised" /\ log # <<>>)
        => LET d == dirname(Last.src)
               temp == join(d, uuid4)
               orphan == Last.calls = 2 /\ Last.failed = 2
           IN  /\ orphan
                    => /\ \E e \in fs[d] : \E f \in fsAtCall[d] :
                             /\ e.name = uuid4
                             /\ f.name = basename(Last.src)
                             /\ e.orig = f.orig
                       /\ FileAt(fs, Last.src) = {}
                       /\ FileAt(fs, Last.dst) = {}
                       /\ err.filename = temp
                       /\ err.filename2 = Last.dst
               /\ ~orphan
                    => /\ err.filename = Last.src
                       /\ err.filename # temp
                       /\ \A e \in fs[d] : e.name # uuid4

\* the second step of a two-step rename failed on a case-insensitive volume
C7_Witness ==
    /\ pc = "raised"
    /\ log # <<>>
    /\ Last.calls = 2
    /\ Last.failed = 2
    /\ platform = "windows"
    /\ basename(Last.src) # basename(Last.dst)

WasOccupied(l) == l.occupied

\* the skip report of the claim: one entry for each file whose destination was
\* held by another entry, in the order of the decisions
SkipReport ==
    LET skipped == SelectSeq(log, WasOccupied)
    IN  [i \in 1..Len(skipped) |-> [path |-> skipped[i].src, reason |-> "target exists"]]

\* C8 as stated: a completed call hands back to its caller the skip report, one
\* entry for each file skipped for a true collision, in order, and no other
C8_Original ==
    pc = "done" => ret = [type |-> "list", value |-> SkipReport]

\* C9 as stated: the second of two successive runs matches no file, prints
\* nothing and leaves every file as the first run left it
C9_Original ==
    (pc = "done" /\ runs >= 2)
        => /\ log = <<>>
           /\ out = <<>>
           /\ fs = fsAtCall

\* the run before skipped no file and gave no name ending with the old extension
PrevRunClean ==
    \A i \in 1..Len(prevLog) :
        /\ prevLog[i].act = "rename"
        /\ ~endswith(lower(basename(prevLog[i].dst)), old_ext)

\* C9 amended: the same, when the first run skipped no file and gave no name
\* that ends with the normalized old extension
C9_IdempotentRerun ==
    (pc = "done" /\ runs >= 2 /\ PrevRunClean)
        => /\ log = <<>>
           /\ out = <<>>
           /\ fs = fsAtCall

\* a second run completed after a first run that renamed two files
C9_Witness ==
    /\ pc = "done"
    /\ runs = 2
    /\ PrevRunClean
    /\ Len(prevLog) = 2

\* C10: applying normalize_ext to its own result changes nothing
C10_NormalizeIdempotent ==
    \A i \in 2..Len(nres) : nres[i] = nres[i - 1]

\* normalize_ext was applied twice, starting from a string with whitespace
\* after its leading dot
C10_Witness ==
    /\ Len(nres) >= 2
    /\ nin = <<".", " ", "O">>
    /\ nres[1] = <<".", " ", "o">>

\* the result the claim describes: the trimmed, lowercased input, with a dot
\* in front exactly when it does not start with one
Described(x) ==
    LET t == lower(strip(x))
    IN  IF t # <<>> /\ t[1] = "." THEN t ELSE <<".">> \o t

\* y is x with one dot in front, and x has no dot in front
OneMoreDot(y, x) == y = <<".">> \o x /\ (x = <<>> \/ x[1] # ".")

\* the two strings differ only in letter case, only in whitespace at their
\* ends, or only in one of them having a dot in front
DiffersAsStated(x, y) ==
    \/ lower(x) = lower(y)
    \/ strip(x) = strip(y)
    \/ OneMoreDot(x, y)
    \/ OneMoreDot(y, x)

\* the same, combined, with the dot taken in front of the trimmed string
DiffersTrimmed(x, y) ==
    LET a == lower(strip(x))
        b == lower(strip(y))
    IN  a = b \/ OneMoreDot(a, b) \/ OneMoreDot(b, a)

\* C11 as stated: normalize_ext returns what the claim describes, and the same
\* for two inputs that differ only in case, in whitespace at the ends or in
\* one having a dot in front
C11_Original ==
    Len(nres) >= 1
        => /\ nres[1] = Described(nin)
           /\ \A y \in Strings(MaxLen) :
                 DiffersAsStated(nin, y) => normalize_ext(y) = nres[1]

\* C11 amended: the same, where the dot that one input has and the other has
\* not stands in front of the trimmed input
C11_NormalizeCaseInsensitive ==
    Len(nres) >= 1
        => /\ nres[1] = Described(nin)
           /\ (strip(nin) = <<>> => nres[1] = <<".">>)
           /\ \A y \in Strings(MaxLen) :
                 DiffersTrimmed(nin, y) => normalize_ext(y) = nres[1]

\* normalize_ext was applied to " .O", which other inputs equal up to case,
\* whitespace and the dot
C11_Witness ==
    /\ Len(nres) >= 1
    /\ nin = <<" ", ".", "O">>
    /\ nres[1] = <<".", "o">>
    /\ DiffersTrimmed(nin, <<"o", " ">>)

\* no whitespace at either end
NoOuterSpace(r) == r = <<>> \/ (~IsSpace(r[1]) /\ ~IsSpace(r[Len(r)]))

\* C12 as stated: every result of normalize_ext is non-empty, starts with a
\* dot, is all lowercase and holds no whitespace
C12_Original ==
    \A i \in 1..Len(nres) :
        /\ nres[i] # <<>>
        /\ nres[i][1] = "."
        /\ lower(nres[i]) = nres[i]
        /\ \A k \in 1..Len(nres[i]) : ~IsSpace(nres[i][k])

\* C12 amended: every result of normalize_ext is non-empty, starts with a dot,
\* is all lowercase and has no whitespace at its ends
C12_ExtensionSpec ==
    \A i \in 1..Len(nres) :
        /\ nres[i] # <<>>
        /\ nres[i][1] = "."
        /\ lower(nres[i]) = nres[i]
        /\ NoOuterSpace(nres[i])

\* normalize_ext was applied to an upper-case string with whitespace inside
C12_Witness ==
    /\ Len(nres) >= 1
    /\ nin = <<"O", " ", "O">>
    /\ nres[1] = <<".", "o", " ", "o">>


--------------------------------------------------------------------------
(* The order of the walk *)

\* a is a directory above d
ProperAncestor(a, d) == Len(a) < Len(d) /\ SubSeq(d, 1, Len(a)) = a

\* C13: bottom-up order.  For every directory D, every rename or skip
\* decision for a file in a directory below D is taken before the first
\* decision for a file directly in D: no decision in D is followed by a
\* decision in a directory below D.
C13_BottomUp ==
    \A i, j \in 1..Len(log) :
        i < j => ~ProperAncestor(dirname(log[i].src), dirname(log[j].src))

\* C13: a walk that decided on a file two levels down and then on one at the top
C13_Witness ==
    /\ pc = "done"
    /\ Len(log) = 2
    /\ dirname(log[1].src) = DirB
    /\ dirname(log[2].src) = Top

--------------------------------------------------------------------------
(* The branch safe_rename takes *)

\* a path with every letter in lower case
LowerPath(p) == [i \in 1..Len(p) |-> lower(p[i])]

\* the two paths differ, and only in letter case
CaseOnly(s, d) == LowerPath(s) = LowerPath(d) /\ s # d

\* some directory holds a file under a temporary name
HasTemp == \E d \in DOMAIN fs : \E e \in fs[d] : e.name = uuid4

\* a temporary name is only ever made by the two-step branch, in the
\* directory of the source, and it is gone when both steps are done
TempOnlyTwoStep ==
    /\ HasTemp => /\ log # <<>>
                  /\ Last.calls = 2
                  /\ Last.failed = 2
                  /\ \E e \in fs[dirname(Last.src)] : e.name = uuid4
    /\ \A i \in 1..Len(log) :
          (log[i].calls = 2 /\ log[i].failed = 0) =>
              \E e \in fs[dirname(log[i].dst)] :
                  e.name = basename(log[i].dst) /\ e.orig = log[i].orig

\* C14 as stated: safe_rename goes through a temporary name exactly when
\* source and destination differ only in letter case; when they differ
\* otherwise and when they are the same string it makes one direct rename.
C14_Original ==
    /\ TempOnlyTwoStep
    /\ \A i \in 1..Len(log) :
          log[i].act = "rename" =>
              (log[i].calls = 2 <=> CaseOnly(log[i].src, log[i].dst))

\* C14: safe_rename goes through a temporary name in the directory of the
\* source exactly when os.path.normcase makes source and destination equal:
\* when they are the very same string, and on Windows also when they differ
\* only in letter case.  In every other case it makes one direct rename and
\* no temporary name.
C14_RenamePath ==
    /\ TempOnlyTwoStep
    /\ \A i \in 1..Len(log) :
          log[i].act = "rename" =>
              (log[i].calls = 2 <=>
                  \/ log[i].src = log[i].dst
                  \/ platform = "windows" /\ CaseOnly(log[i].src, log[i].dst))
              /\ log[i].calls \in {1, 2}

\* C14: a file whose name already ends with the new extension went through a
\* temporary name, and a file whose name changed in case only was renamed
\* directly
C14_Witness ==
    /\ platform = "linux"
    /\ pc = "done"
    /\ Len(log) = 2
    /\ \E i, j \in 1..2 :
          /\ log[i].src = log[i].dst /\ log[i].calls = 2 /\ log[i].failed = 0
          /\ CaseOnly(log[j].src, log[j].dst) /\ log[j].calls = 1

--------------------------------------------------------------------------
(* No file is lost *)

\* the places (directory, entry) where the content that started at o is
Holders(fsys, o) ==
    {<<d, e>> \in UNION {{<<c, x>> : x \in fsys[c]} : c \in DOMAIN fsys} : e.orig = o}

\* the contents a tree holds
Contents(fsys) == {e.orig : e \in UNION {fsys[d] : d \in DOMAIN fsys}}

\* C15: no file is lost.  On a case-sensitive file system, after a call in
\* which no rename failed, every directory holds as many files as before
\* the call and every content is under exactly one name; of two matched
\* files of one directory with the same destination at most one is renamed
\* and the other is skipped.
C15_NoFileLost ==
    (/\ platform = "linux"
     /\ pc \in {"done", "raised"}
     /\ \A i \in 1..Len(log) : log[i].failed = 0)
    => /\ DOMAIN fs = DOMAIN fsAtCall
       /\ \A d \in DOMAIN fs : Cardinality(fs[d]) = Cardinality(fsAtCall[d])
       /\ \A o \in Contents(fsAtCall) : Cardinality(Holders(fs, o)) = 1
       /\ \A d \in DOMAIN fs : \A e, f \in fs[d] : e.name = f.name => e = f
       /\ \A i, j \in 1..Len(log) :
             (i < j /\ log[i].dst = log[j].dst /\ log[i].act = "rename")
                => /\ log[j].act = "skip"
                   /\ \E e \in fs[dirname(log[j].src)] :
                         e.name = basename(log[j].src) /\ e.orig = log[j].orig

\* C15: x.o and x.O of one directory both had the destination x.n; one was
\* renamed and the other skipped
C15_Witness ==
    /\ platform = "linux"
    /\ pc = "done"
    /\ Len(log) = 2
    /\ log[1].dst = log[2].dst
    /\ log[1].src # log[2].src
    /\ log[1].act = "rename" /\ log[1].failed = 0
    /\ log[2].act = "skip"
    /\ Cardinality(fs[dirname(log[1].src)]) = 2

--------------------------------------------------------------------------
(* One decision per file, and the end of the walk *)

\* the directories at and below d
Below(fsys, d) ==
    {c \in DOMAIN fsys : Len(d) <= Len(c) /\ SubSeq(c, 1, Len(d)) = d}

\* the steps the walk still owes to a set of directories not yet scanned:
\* one scan and one yield each, and one iteration per file
RECURSIVE DirWork(_, _)
DirWork(fsys, S) ==
    IF S = {} THEN 0
    ELSE LET c == CHOOSE x \in S : TRUE
         IN  2 + Cardinality(fsys[c]) + DirWork(fsys, S \ {c})

\* the steps the walk still owes to the items of its stack
RECURSIVE StackWork(_, _)
StackWork(fsys, st) ==
    IF st = <<>> THEN 0
    ELSE LET it == Head(st)
             w == IF it.kind = "tuple" THEN 1 + Len(it.files)
                  ELSE IF ~isdir(fsys, it.top) THEN 1
                  ELSE DirWork(fsys, Below(fsys, ResolveDir(fsys, it.top)))
         IN  w + StackWork(fsys, Tail(st))

\* a bound on the steps left in the walk
Measure == StackWork(fs, stack) + Len(files)

\* the files the walk has decided on
Decided == {log[i].orig : i \in 1..Len(log)}

\* no file has two decisions, and no name still to be visited is a file the
\* walk has already decided on
NoRevisit ==
    /\ \A i, j \in 1..Len(log) : log[i].orig = log[j].orig => i = j
    /\ pc = "files" =>
          /\ files # <<>>
          /\ \A k \in 1..Len(files) : OrigOf(fs, join(root, files[k])) \notin Decided

\* C16: at most one rename per file per walk.  Within one call every file
\* gets at most one decision, a file once renamed is not among the names
\* still to be visited, and every step of the walk lowers a bound on the
\* steps left or ends the call, so the walk terminates; also when the new
\* name ends with the old extension again.
C16_OncePerFile ==
    [][/\ NoRevisit'
       /\ pc \in {"walk", "files"} =>
             (pc' \in {"done", "raised"} \/ (Measure' < Measure /\ Measure' >= 0))]_vars

\* C16: a walk that ended after renaming a file to a name that ends with the
\* old extension again
C16_Witness ==
    /\ pc = "done"
    /\ log # <<>>
    /\ \E i \in 1..Len(log) :
          /\ log[i].act = "rename"
          /\ log[i].failed = 0
          /\ log[i].src # log[i].dst
          /\ endswith(lower(basename(log[i].dst)), old_ext)
          /\ endswith(new_ext, old_ext)

--------------------------------------------------------------------------
(* Directories *)

\* a directory of the tree has the name the path gives, as the host compares names
DirectoryAt(p) == \E d \in DirSet : FoldOn(platform, d) = FoldOn(platform, p)

\* C17: the directory structure is unchanged.  The directories are at every
\* moment the ones the tree started with, also the one whose name ends with
\* the old extension; every file is in the directory it started in; every
\* decision has its destination in the directory of its source; and a
\* destination name that a directory has is skipped.
C17_DirectoriesUnchanged ==
    /\ DOMAIN fs = DirSet
    /\ \A d \in DirSet : \A e \in fs[d] : dirname(e.orig) = d
    /\ \A i \in 1..Len(log) :
          /\ dirname(log[i].dst) = dirname(log[i].src)
          /\ Len(log[i].dst) = Len(log[i].src)
          /\ DirectoryAt(log[i].dst) => log[i].act = "skip"

\* C17: a finished walk over a tree with a directory d.o, with old extension
\* .o: the file whose destination x.n is a directory was skipped, and a file
\* next to d.o was renamed
C17_Witness ==
    /\ pc = "done"
    /\ old_ext = <<".", "o">>
    /\ endswith(lower(basename(DirB)), old_ext)
    /\ Len(log) = 2
    /\ log[1].act = "rename" /\ log[1].failed = 0 /\ dirname(log[1].src) = dirname(DirB)
    /\ log[2].act = "skip" /\ log[2].dst = DirA

====
